---- MODULE Spec2Model ----
(***************************************************************************)
(* tcping: TCP connect probe loop, host resolution with address-family     *)
(* filtering, and the PingStats accumulator.                               *)
(*                                                                         *)
(* Durations are integers (nanoseconds).  Option<T> is a sequence of       *)
(* length 0 (None) or 1 (Some).  Result<T, String> is a record with an ok  *)
(* field.                                                                  *)
(***************************************************************************)
EXTENDS Integers, Sequences, FiniteSets, TLC

\* ------------------------------------------------------------------ bounds

\* Probes an unbounded run (count = 0) may start before the model stops it.
MaxProbes == 3
\* Largest value of the count argument the model tries.
MaxCount == 2
\* Longest list of addresses the name lookup returns.
MaxAddrs == 3
\* Most update calls applied to a PingStats by the accumulator-only specification.
MaxUpdates == 4
\* How many probes before the u32 limit the long-run specification starts at most.
LongRunLead == 3
\* How many probes past the u32 limit the long-run specification follows.
LongRunTail == 3

\* ------------------------------------------------------------------ values

None == <<>>
Some(x) == <<x>>
IsSome(o) == Len(o) = 1
Unwrap(o) == o[1]

Addrs4 == {"10.0.0.1", "10.0.0.2"}
Addrs6 == {"::1", "::2"}
Addrs == Addrs4 \cup Addrs6

\* IpAddr::is_ipv4 / is_ipv6
is_ipv4(ip) == ip \in Addrs4
is_ipv6(ip) == ip \in Addrs6

\* Host strings: one name and one literal of each family.
Hosts == {"example.com", "10.0.0.1", "::1"}

\* host.parse::<IpAddr>(): Some(ip) for a literal address, None for a name.
ParseIpAddr(host) == IF host \in Addrs THEN Some(host) ELSE None

\* Elapsed times a probe can measure (nanoseconds).
RttValues == {10000000, 20000000}

\* Sample times handed to PingStats::update when the accumulator is driven on
\* its own: 10..40 ms, 100..120 ms, and one value with an odd nanosecond count.
StatsRttValues ==
    {10000000, 20000000, 30000000, 40000000, 100000000, 110000000, 120000000,
     15000001}

RECURSIVE SeqsUpTo(_, _)
SeqsUpTo(S, n) ==
    IF n = 0 THEN {<<>>}
    ELSE LET shorter == SeqsUpTo(S, n - 1)
         IN shorter \cup {Append(s, x) : s \in {t \in shorter : Len(t) = n - 1}, x \in S}

\* What lookup_host can answer: an error, or a list of addresses (possibly empty).
LookupErr == [ok |-> FALSE, ips |-> <<>>]
LookupOk(ips) == [ok |-> TRUE, ips |-> ips]
LookupAnswers == {LookupErr} \cup {LookupOk(s) : s \in SeqsUpTo(Addrs, MaxAddrs)}

\* ------------------------------------------------------------ network.rs

\* ip_addrs.into_iter().filter(|ip| ip.is_ipv4()).collect()
FilterV4(ip_addrs) == SelectSeq(ip_addrs, LAMBDA ip : is_ipv4(ip))
FilterV6(ip_addrs) == SelectSeq(ip_addrs, LAMBDA ip : is_ipv6(ip))

\* Faulty variant of filter_ip_addresses: in auto mode the IPv4 test is dropped and a mixed
\* list is returned whole.
filter_ip_addresses_Merged(ip_addrs, ipv4, ipv6) ==
    IF ipv4 THEN FilterV4(ip_addrs)
    ELSE IF ipv6 THEN FilterV6(ip_addrs)
    ELSE ip_addrs

filter_ip_addresses(ip_addrs, ipv4, ipv6) ==
    IF ipv4 THEN FilterV4(ip_addrs)
    ELSE IF ipv6 THEN FilterV6(ip_addrs)
    ELSE IF \E i \in 1..Len(ip_addrs) : is_ipv4(ip_addrs[i])
         THEN FilterV4(ip_addrs)
         ELSE FilterV6(ip_addrs)

\* The list resolve_host hands to the filter: the lookup's answer, or on a
\* lookup error the host parsed as a literal.  ok = FALSE: neither worked.
LookupOrLiteral(host, answer) ==
    IF answer.ok THEN [ok |-> TRUE, ips |-> answer.ips]
    ELSE IF IsSome(ParseIpAddr(host))
         THEN [ok |-> TRUE, ips |-> <<Unwrap(ParseIpAddr(host))>>]
         ELSE [ok |-> FALSE, ips |-> <<>>]

\* resolve_host: Ok(filtered list) or Err(message kind).
resolve_host(host, answer, ipv4, ipv6) ==
    LET got == LookupOrLiteral(host, answer)
    IN IF ~got.ok
       THEN [ok |-> FALSE, err |-> "CannotResolveHost", ips |-> <<>>, ip_addrs |-> <<>>]
       ELSE LET filtered_ips == filter_ip_addresses(got.ips, ipv4, ipv6)
            IN IF filtered_ips = <<>>
               THEN [ok |-> FALSE, err |-> "NoAddressForFamily", ips |-> <<>>,
                     ip_addrs |-> got.ips]
               ELSE [ok |-> TRUE, err |-> "", ips |-> filtered_ips, ip_addrs |-> got.ips]

\* --------------------------------------------------------------- stats.rs

\* PingStats::new
NewStats ==
    [transmitted |-> 0, received |-> 0, total_time |-> 0, min_time |-> None,
     max_time |-> 0, rtt_values |-> <<>>, jitter |-> None]

AbsDiff(a, b) == IF a > b THEN a - b ELSE b - a

\* Faulty variant of NextJitter: the last difference replaces the jitter, unsmoothed.
NextJitter_Unsmoothed(s, time) ==
    IF s.rtt_values = <<>> THEN s.jitter
    ELSE Some(AbsDiff(time, s.rtt_values[Len(s.rtt_values)]))

\* The jitter after a sample `time` arrives (stats.rs 38-49).
NextJitter(s, time) ==
    IF s.rtt_values = <<>> THEN s.jitter
    ELSE LET diff == AbsDiff(time, s.rtt_values[Len(s.rtt_values)])
         IN IF IsSome(s.jitter)
            THEN Some((Unwrap(s.jitter) * 15 + diff) \div 16)
            ELSE Some(diff)

\* received after an update: incremented on success, whatever rtt is.
NextReceived(s, success) == IF success THEN s.received + 1 ELSE s.received

\* PingStats::update(success, rtt)
Update(s, success, rtt) ==
    LET t == s.transmitted + 1
        r == NextReceived(s, success)
    IN IF success /\ IsSome(rtt)
       THEN LET time == Unwrap(rtt)
            IN [transmitted |-> t,
                received    |-> r,
                total_time  |-> s.total_time + time,
                min_time    |-> IF ~IsSome(s.min_time) THEN Some(time)
                                ELSE IF time < Unwrap(s.min_time) THEN Some(time)
                                ELSE s.min_time,
                max_time    |-> IF time > s.max_time THEN time ELSE s.max_time,
                rtt_values  |-> Append(s.rtt_values, time),
                jitter      |-> NextJitter(s, time)]
       ELSE [s EXCEPT !.transmitted = t, !.received = r]


\* Insert x into an ascending sequence, after the elements equal to it
\* (sort_by_key is stable).
RECURSIVE InsertSorted(_, _)
InsertSorted(sorted, x) ==
    IF sorted = <<>> THEN <<x>>
    ELSE IF x < Head(sorted) THEN <<x>> \o sorted
    ELSE <<Head(sorted)>> \o InsertSorted(Tail(sorted), x)

\* The samples in the order of `indices` after indices.sort_by_key(|&i| rtt_values[i]).
RECURSIVE SortedSamples(_)
SortedSamples(values) ==
    IF values = <<>> THEN <<>>
    ELSE InsertSorted(SortedSamples(SubSeq(values, 1, Len(values) - 1)),
                      values[Len(values)])

\* Faulty variant of median_time: the samples are taken in arrival order, unsorted.
median_time_Unsorted(s) ==
    LET len == Len(s.rtt_values)
        mid == len \div 2
    IN IF len = 0 THEN None
       ELSE IF len % 2 = 0 /\ len >= 2
            THEN Some((s.rtt_values[mid] + s.rtt_values[mid + 1]) \div 2)
            ELSE Some(s.rtt_values[mid + 1])

\* PingStats::median_time (indices are 0-based in the source, 1-based here).
median_time(s) ==
    LET len == Len(s.rtt_values)
        sorted == SortedSamples(s.rtt_values)
        mid == len \div 2
    IN IF len = 0 THEN None
       ELSE IF len % 2 = 0 /\ len >= 2
            THEN Some((sorted[mid] + sorted[mid + 1]) \div 2)
            ELSE Some(sorted[mid + 1])

\* Whether PingStats::std_deviation returns Some (stats.rs 90-93).
std_deviation_is_some(s) == ~(s.received <= 1 \/ Len(s.rtt_values) <= 1)

\* Faulty variant of LossTenths: the share of received probes is printed as the loss.
LossTenths_OfReceived(transmitted, received) ==
    IF transmitted > 0 THEN (received * 1000) \div transmitted ELSE 0

\* The loss percentage as printed with {:.1}, in tenths of a percent
\* (round to nearest, ties to even).
LossTenths(transmitted, received) ==
    IF transmitted > 0
    THEN LET num == (transmitted - received) * 1000
             q == num \div transmitted
             r2 == 2 * (num % transmitted)
         IN IF r2 > transmitted \/ (r2 = transmitted /\ q % 2 = 1) THEN q + 1 ELSE q
    ELSE 0

\* Faulty variant of PrintsRttLine: the line is printed whenever a probe was sent.
PrintsRttLine_Transmitted(s) == s.transmitted > 0

\* Whether print_summary prints the min/max/avg line (stats.rs 123).
PrintsRttLine(s) == s.received > 0

\* Faulty variant of PrintsVerboseBlock: one received probe is enough.
PrintsVerboseBlock_One(s, verbose) == PrintsRttLine(s) /\ verbose /\ s.received >= 1

\* Whether print_summary reaches the verbose block (stats.rs 136).
PrintsVerboseBlock(s, verbose) == PrintsRttLine(s) /\ verbose /\ s.received >= 2

\* PingStats::print_summary: what it prints, as a record of the printed fields
\* and the tags of the printed lines, in order.
print_summary(s, verbose) ==
    [transmitted |-> s.transmitted,
     received    |-> s.received,
     lost        |-> s.transmitted - s.received,
     loss_tenths |-> LossTenths(s.transmitted, s.received),
     lines       |-> <<"header", "counts">>
                     \o (IF PrintsRttLine(s) THEN <<"rtt">> ELSE <<>>)
                     \o (IF PrintsVerboseBlock(s, verbose) /\ IsSome(median_time(s))
                         THEN <<"median">> ELSE <<>>)
                     \o (IF PrintsVerboseBlock(s, verbose) /\ std_deviation_is_some(s)
                         THEN <<"stddev">> ELSE <<>>)
                     \o (IF PrintsVerboseBlock(s, verbose) /\ IsSome(s.jitter)
                         THEN <<"jitter">> ELSE <<>>),
     min_time    |-> IF PrintsRttLine(s)
                     THEN Some(IF IsSome(s.min_time) THEN Unwrap(s.min_time) ELSE 0)
                     ELSE None,
     max_time    |-> IF PrintsRttLine(s) THEN Some(s.max_time) ELSE None,
     avg_time    |-> IF PrintsRttLine(s) THEN Some(s.total_time \div s.received) ELSE None]


\* ---------------------------------------------------------------- main.rs

VARIABLES
    host, ipv4, ipv6, count, verbose,   \* Args
    answer,         \* what lookup_host answers for host
    pc,             \* where main is
    resolve_err,    \* "" or the kind of error resolve_host returned
    filtered_ips,   \* the list resolve_host returned
    target,         \* Option: the address every probe connects to
    running,        \* the shared AtomicBool
    stats,          \* PingStats
    seq,            \* the loop's sequence counter
    task,           \* the current iteration's connect task: none, running, finished, panicked
    task_target,    \* Option: the address the last spawned task connects to
    task_res,       \* Option: what tcp_connect returned in the current task
    detached,       \* connect tasks the loop no longer waits for, still running
    result,         \* Option: the probe result bound at line 350
    out,            \* the per-probe lines printed so far
    err_out,        \* the messages given to print_error so far
    summary,        \* Option: what print_summary printed
    sleeps,         \* interval sleeps begun so far
    spawned         \* connect tasks spawned so far

vars == <<host, ipv4, ipv6, count, verbose, answer, pc, resolve_err, filtered_ips,
          target, running, stats, seq, task, task_target, task_res, detached,
          result, out, err_out, summary, sleeps, spawned>>

args == <<host, ipv4, ipv6, count, verbose, answer>>

\* Family preferences clap accepts: -4 and -6 conflict.
Prefs == {<<TRUE, FALSE>>, <<FALSE, TRUE>>, <<FALSE, FALSE>>}

\* Lookup answers tried by the whole-program specification.
MainAnswers ==
    {LookupErr, LookupOk(<<>>), LookupOk(<<"10.0.0.1", "::1">>),
     LookupOk(<<"::2", "10.0.0.2", "10.0.0.1">>)}

\* The state before main runs, for a given set of lookup answers.
InitWith(answers) ==
    /\ host \in Hosts
    /\ \E p \in Prefs : ipv4 = p[1] /\ ipv6 = p[2]
    /\ count \in 0..MaxCount
    /\ verbose \in BOOLEAN
    /\ answer \in answers
    /\ pc = "start"
    /\ resolve_err = ""
    /\ filtered_ips = <<>>
    /\ target = None
    /\ running = TRUE
    /\ stats = NewStats
    /\ seq = 0
    /\ task = "none"
    /\ task_target = None
    /\ task_res = None
    /\ detached = 0
    /\ result = None
    /\ out = <<>>
    /\ err_out = <<>>
    /\ summary = None
    /\ sleeps = 0
    /\ spawned = 0

Init == InitWith(MainAnswers)

\* Faulty variant of PickTarget: the last address of the list is taken.
PickTarget_Last(ips) == ips[Len(ips)]

\* The address main takes from the resolved list (main.rs 316).
PickTarget(ips) == ips[1]

\* main.rs 308-334: resolve the host; on an error report it and return, otherwise
\* fix the target, install the signal handler and create the statistics.
Main_Resolve ==
    /\ pc = "start"
    /\ LET r == resolve_host(host, answer, ipv4, ipv6)
       IN \/ /\ ~r.ok
             /\ resolve_err' = r.err
             /\ err_out' = Append(err_out, r.err)
             /\ pc' = "done"
             /\ UNCHANGED <<filtered_ips, target>>
          \/ /\ r.ok
             /\ filtered_ips' = r.ips
             /\ target' = Some(PickTarget(r.ips))
             /\ pc' = "loop_head"
             /\ UNCHANGED <<resolve_err, err_out>>
    /\ UNCHANGED <<args, running, stats, seq, task, task_target, task_res, detached,
                   result, out, summary, sleeps, spawned>>

\* Faulty variant of CountReached: the test for count > 0 is forgotten.
CountReached_NoZeroCheck(n, limit) == n >= limit

\* main.rs 337: the count limit is reached.
CountReached(n, limit) == limit > 0 /\ n >= limit

\* Faulty variant of ShouldSleep: off by one, the loop also sleeps after the last probe.
ShouldSleep_OffByOne(n, limit) == n <= limit \/ limit = 0

\* main.rs 403: the loop sleeps after this iteration.
ShouldSleep(n, limit) == n < limit \/ limit = 0

\* main.rs 336-339: the while condition and the count check.
Loop_Head ==
    /\ pc = "loop_head"
    /\ pc' = IF ~running \/ CountReached(seq, count) THEN "summary" ELSE "check_start"
    /\ UNCHANGED <<args, resolve_err, filtered_ips, target, running, stats, seq, task,
                   task_target, task_res, detached, result, out, err_out, summary,
                   sleeps, spawned>>

\* Faulty variant of Check_Start: the flag is not loaded before the spawn.
Check_Start_NoLoad ==
    /\ pc = "check_start"
    /\ spawned < MaxProbes
    /\ pc' = "spawn"
    /\ UNCHANGED <<args, resolve_err, filtered_ips, target, running, stats, seq, task,
                   task_target, task_res, detached, result, out, err_out, summary,
                   sleeps, spawned>>

\* main.rs 341-344: take the start time, load the flag again.  (The model stops a
\* run here once MaxProbes probes have been started.)
Check_Start ==
    /\ pc = "check_start"
    /\ \/ /\ ~running
          /\ pc' = "summary"
       \/ /\ running
          /\ spawned < MaxProbes
          /\ pc' = "spawn"
    /\ UNCHANGED <<args, resolve_err, filtered_ips, target, running, stats, seq, task,
                   task_target, task_res, detached, result, out, err_out, summary,
                   sleeps, spawned>>

\* main.rs 346-348: spawn the connect task.
Spawn ==
    /\ pc = "spawn"
    /\ task' = "running"
    /\ task_target' = target
    /\ task_res' = None
    /\ spawned' = spawned + 1
    /\ pc' = "check_spawned"
    /\ UNCHANGED <<args, resolve_err, filtered_ips, target, running, stats, seq,
                   detached, result, out, err_out, summary, sleeps>>

\* main.rs 350, 356-358: load the flag; when false leave the loop, dropping the
\* JoinHandle (the task is not aborted, it runs on by itself).
Check_Spawned ==
    /\ pc = "check_spawned"
    /\ \/ /\ running
          /\ pc' = "await"
          /\ UNCHANGED <<task, task_res, detached>>
       \/ /\ ~running
          /\ pc' = "summary"
          /\ task' = "none"
          /\ task_res' = None
          /\ detached' = IF task = "running" THEN detached + 1 ELSE detached
    /\ UNCHANGED <<args, resolve_err, filtered_ips, target, running, stats, seq,
                   task_target, result, out, err_out, summary, sleeps, spawned>>

\* Error texts, and whether each contains "timed out" or the tool's own timeout text.
ErrConnectTimeout == "connect timeout"
ErrTaskCancelled == "task cancelled"
ErrOsTimedOut == "Connection timed out (os error 110)"
ErrOsRefused == "Connection refused (os error 111)"
ErrOsOther == "Network is unreachable (os error 101)"

\* Faulty variant of IsTimeoutText: only the OS text counts as a timeout.
IsTimeoutText_OsOnly(err) == err = ErrOsTimedOut

\* err.contains("timed out") || err.contains(the tool's timeout text)  (main.rs 385)
IsTimeoutText(err) == err \in {ErrConnectTimeout, ErrOsTimedOut}

Ok(local_addr) == [ok |-> TRUE, local_addr |-> local_addr, err |-> ""]
Err(e) == [ok |-> FALSE, local_addr |-> None, err |-> e]

\* What tcp_connect can return (network.rs 7-24): the connection with or without
\* its local address, the OS error of the connect call, or the inner timeout.
ConnectResults ==
    {Ok(Some("local")), Ok(None), Err(ErrOsTimedOut), Err(ErrOsRefused),
     Err(ErrOsOther), Err(ErrConnectTimeout)}

\* The connect task of the current iteration ends: tcp_connect returns, or the
\* task panics (the join then fails).
Task_Finish ==
    /\ task = "running"
    /\ \/ /\ \E r \in ConnectResults : task_res' = Some(r)
          /\ task' = "finished"
       \/ /\ task_res' = None
          /\ task' = "panicked"
    /\ UNCHANGED <<args, pc, resolve_err, filtered_ips, target, running, stats, seq,
                   task_target, detached, result, out, err_out, summary, sleeps,
                   spawned>>

\* A connect task the loop no longer waits for finishes.
Detached_Finish ==
    /\ detached > 0
    /\ detached' = detached - 1
    /\ UNCHANGED <<args, pc, resolve_err, filtered_ips, target, running, stats, seq,
                   task, task_target, task_res, result, out, err_out, summary, sleeps,
                   spawned>>

\* main.rs 351-355: the await on timeout(connect_task) returns: the task's result,
\* a join error, or the outer timeout (the task then runs on, unawaited).
Await ==
    /\ pc = "await"
    /\ \/ /\ task = "finished"
          /\ result' = task_res
          /\ UNCHANGED detached
       \/ /\ task = "panicked"
          /\ result' = Some(Err(ErrTaskCancelled))
          /\ UNCHANGED detached
       \/ /\ task = "running"
          /\ result' = Some(Err(ErrConnectTimeout))
          /\ detached' = detached + 1
    /\ task' = "none"
    /\ task_res' = None
    /\ pc' = "check_result"
    /\ UNCHANGED <<args, resolve_err, filtered_ips, target, running, stats, seq,
                   task_target, out, err_out, summary, sleeps, spawned>>


\* main.rs 360-362: load the flag after the await; when false leave the loop.
Check_Result ==
    /\ pc = "check_result"
    /\ \/ /\ running
          /\ pc' = "handle"
          /\ UNCHANGED result
       \/ /\ ~running
          /\ pc' = "summary"
          /\ result' = None
    /\ UNCHANGED <<args, resolve_err, filtered_ips, target, running, stats, seq, task,
                   task_target, task_res, detached, out, err_out, summary, sleeps,
                   spawned>>

\* The per-probe line printed for a result (main.rs 369-372, 385-390).
ProbeLine(res, seq_num, elapsed) ==
    IF res.ok THEN [kind |-> "reply", seq |-> seq_num, time |-> Some(elapsed)]
    ELSE IF IsTimeoutText(res.err)
         THEN [kind |-> "timeout", seq |-> seq_num, time |-> None]
         ELSE [kind |-> "unreachable", seq |-> seq_num, time |-> None]

\* The statistics after a result is recorded (main.rs 382, 395).
Record(s, res, elapsed) ==
    IF res.ok THEN Update(s, TRUE, Some(elapsed)) ELSE Update(s, FALSE, None)

\* Faulty variant of AfterHandle: a failed probe ends the loop.
AfterHandle_StopOnFailure(res) == IF res.ok THEN "check_wait" ELSE "summary"

\* Where the loop goes after a result has been printed and recorded.
AfterHandle(res) == "check_wait"

\* main.rs 364-397: measure the elapsed time, take the sequence number, print the
\* probe's line and record the outcome.
Handle ==
    /\ pc = "handle"
    /\ \E elapsed \in RttValues :
          /\ out' = Append(out, ProbeLine(Unwrap(result), seq, elapsed))
          /\ stats' = Record(stats, Unwrap(result), elapsed)
    /\ seq' = seq + 1
    /\ pc' = AfterHandle(Unwrap(result))
    /\ result' = None
    /\ UNCHANGED <<args, resolve_err, filtered_ips, target, running, task, task_target,
                   task_res, detached, err_out, summary, sleeps, spawned>>

\* Faulty variant of Check_Wait: the flag is not loaded before the wait.
Check_Wait_NoLoad ==
    /\ pc = "check_wait"
    /\ \/ /\ ShouldSleep(seq, count)
          /\ pc' = "sleep"
          /\ sleeps' = sleeps + 1
       \/ /\ ~ShouldSleep(seq, count)
          /\ pc' = "loop_head"
          /\ UNCHANGED sleeps
    /\ UNCHANGED <<args, resolve_err, filtered_ips, target, running, stats, seq, task,
                   task_target, task_res, detached, result, out, err_out, summary,
                   spawned>>

\* main.rs 399-405: load the flag; when false leave the loop; otherwise begin the
\* interval sleep unless the count is used up.
Check_Wait ==
    /\ pc = "check_wait"
    /\ \/ /\ ~running
          /\ pc' = "summary"
          /\ UNCHANGED sleeps
       \/ /\ running
          /\ ShouldSleep(seq, count)
          /\ pc' = "sleep"
          /\ sleeps' = sleeps + 1
       \/ /\ running
          /\ ~ShouldSleep(seq, count)
          /\ pc' = "loop_head"
          /\ UNCHANGED sleeps
    /\ UNCHANGED <<args, resolve_err, filtered_ips, target, running, stats, seq, task,
                   task_target, task_res, detached, result, out, err_out, summary,
                   spawned>>

\* main.rs 404: the interval sleep ends.
Sleep_Done ==
    /\ pc = "sleep"
    /\ pc' = "loop_head"
    /\ UNCHANGED <<args, resolve_err, filtered_ips, target, running, stats, seq, task,
                   task_target, task_res, detached, result, out, err_out, summary,
                   sleeps, spawned>>

\* main.rs 408: a summary is printed.
PrintsSummary(s) == s.transmitted > 0

\* main.rs 408-412: print the summary and return; the runtime shuts down and takes
\* the connect tasks still running with it.
Summary ==
    /\ pc = "summary"
    /\ summary' = IF PrintsSummary(stats) THEN Some(print_summary(stats, verbose))
                  ELSE None
    /\ pc' = "done"
    /\ detached' = 0
    /\ UNCHANGED <<args, resolve_err, filtered_ips, target, running, stats, seq, task,
                   task_target, task_res, result, out, err_out, sleeps, spawned>>

\* The labels at which the signal handler is installed and main has not returned.
HandlerLive ==
    pc \in {"loop_head", "check_start", "spawn", "check_spawned", "await",
            "check_result", "handle", "check_wait", "sleep", "summary"}

\* Faulty variant of CtrlC: the handler only stores false and never exits.
CtrlC_Store ==
    /\ HandlerLive
    /\ running' = FALSE
    /\ UNCHANGED <<args, pc, resolve_err, filtered_ips, target, stats, seq, task,
                   task_target, task_res, detached, result, out, err_out, summary,
                   sleeps, spawned>>

\* utils.rs 30-36 / main.rs 294-300: the handler run on an interrupt: swap the flag
\* to false; when it was false already, exit the process.
CtrlC ==
    /\ HandlerLive
    /\ \/ /\ running
          /\ running' = FALSE
          /\ UNCHANGED <<pc, task, task_res, detached, result>>
       \/ /\ ~running
          /\ pc' = "exited"
          /\ task' = "none"
          /\ task_res' = None
          /\ detached' = 0
          /\ result' = None
          /\ UNCHANGED running
    /\ UNCHANGED <<args, resolve_err, filtered_ips, target, stats, seq, task_target,
                   out, err_out, summary, sleeps, spawned>>

Next ==
    \/ Main_Resolve
    \/ Loop_Head
    \/ Check_Start
    \/ Spawn
    \/ Check_Spawned
    \/ Task_Finish
    \/ Detached_Finish
    \/ Await
    \/ Check_Result
    \/ Handle
    \/ Check_Wait
    \/ Sleep_Done
    \/ Summary
    \/ CtrlC

Spec == Init /\ [][Next]_vars

\* The steps of main itself.
MainStep ==
    \/ Main_Resolve
    \/ Loop_Head
    \/ Check_Start
    \/ Spawn
    \/ Check_Spawned
    \/ Await
    \/ Check_Result
    \/ Handle
    \/ Check_Wait
    \/ Sleep_Done
    \/ Summary

\* main keeps running: the runtime schedules it, the await at line 351 ends with
\* the connect task or the timeout, and the sleep at line 404 ends.
FairSpec == Spec /\ WF_vars(MainStep)


\* ------------------------------------------- resolve_host on its own inputs

\* Every host, preference and lookup answer within the bounds; the only step is
\* the resolution.
InitResolve == InitWith(LookupAnswers)

SpecResolve == InitResolve /\ [][Main_Resolve]_vars

\* ------------------------------------------------- PingStats on its own calls

\* A PingStats just created, to which update is applied with arbitrary arguments.
InitStats ==
    /\ host = "example.com"
    /\ ipv4 = FALSE
    /\ ipv6 = FALSE
    /\ count = 0
    /\ verbose \in BOOLEAN
    /\ answer = LookupErr
    /\ pc = "stats"
    /\ resolve_err = ""
    /\ filtered_ips = <<>>
    /\ target = None
    /\ running = TRUE
    /\ stats = NewStats
    /\ seq = 0
    /\ task = "none"
    /\ task_target = None
    /\ task_res = None
    /\ detached = 0
    /\ result = None
    /\ out = <<>>
    /\ err_out = <<>>
    /\ summary = None
    /\ sleeps = 0
    /\ spawned = 0

\* One call stats.update(success, rtt).  The caller lets go of what earlier
\* queries returned.
Stats_Update ==
    /\ pc = "stats"
    /\ stats.transmitted < MaxUpdates
    /\ \E success \in BOOLEAN, rtt \in {None} \cup {Some(v) : v \in StatsRttValues} :
          stats' = Update(stats, success, rtt)
    /\ result' = None
    /\ summary' = None
    /\ UNCHANGED <<args, pc, resolve_err, filtered_ips, target, running, seq, task,
                   task_target, task_res, detached, out, err_out, sleeps, spawned>>

\* Faulty variant of median_time_Self: the samples themselves are sorted.
median_time_SortsInPlace(s) == [s EXCEPT !.rtt_values = SortedSamples(@)]

\* The PingStats after median_time(&self): the receiver is shared, the sort
\* runs on the vector of indices (stats.rs 74-75; on a clone in main.rs 112-113).
median_time_Self(s) == s

\* The PingStats after std_deviation(&self) (stats.rs 89-107).
std_deviation_Self(s) == s

\* The PingStats after print_summary(&self, ..) (stats.rs 109-151).
print_summary_Self(s) == s

\* One call stats.median_time(); the caller keeps the value returned.
Stats_Median ==
    /\ pc = "stats"
    /\ result' = Some([query |-> "median_time", value |-> median_time(stats)])
    /\ stats' = median_time_Self(stats)
    /\ UNCHANGED <<args, pc, resolve_err, filtered_ips, target, running, seq, task,
                   task_target, task_res, detached, out, err_out, summary, sleeps,
                   spawned>>

\* One call stats.std_deviation(); the caller keeps whether a value was returned.
Stats_StdDev ==
    /\ pc = "stats"
    /\ result' = Some([query |-> "std_deviation", value |-> std_deviation_is_some(stats)])
    /\ stats' = std_deviation_Self(stats)
    /\ UNCHANGED <<args, pc, resolve_err, filtered_ips, target, running, seq, task,
                   task_target, task_res, detached, out, err_out, summary, sleeps,
                   spawned>>

\* One call stats.print_summary(host, verbose); what it printed is kept.
Stats_PrintSummary ==
    /\ pc = "stats"
    /\ summary' = Some(print_summary(stats, verbose))
    /\ stats' = print_summary_Self(stats)
    /\ UNCHANGED <<args, pc, resolve_err, filtered_ips, target, running, seq, task,
                   task_target, task_res, detached, result, out, err_out, sleeps,
                   spawned>>

NextStats == Stats_Update \/ Stats_Median \/ Stats_StdDev \/ Stats_PrintSummary

SpecStats == InitStats /\ [][NextStats]_vars


\* ------------------------------------- the loop near the limit of its counters

\* seq, args.count and PingStats::transmitted are u32 (main.rs 334 by inference
\* from the comparison at 337, main.rs 33, stats.rs 4).  A u32 is held here as
\* <<high half, low half>>, two 16-bit halves, value = high * 65536 + low.
U32Max == <<65535, 65535>>

\* x + 1 on a u32 in a build without overflow checks (release): wraps to 0.
U32Inc(x) ==
    IF x[2] < 65535 THEN <<x[1], x[2] + 1>>
    ELSE IF x[1] < 65535 THEN <<x[1] + 1, 0>>
    ELSE <<0, 0>>

\* x - n on a u32 for a small n that does not borrow past the low half.
U32Below(x, n) == <<x[1], x[2] - n>>

\* An unbounded run (count = 0) at the head of its loop after seq probes, all of
\* which failed (nothing received, no samples kept), with seq at most
\* LongRunLead below the largest u32.  out, sleeps and spawned hold what was
\* printed, slept and spawned from this state on.
InitLongRun ==
    /\ host = "example.com"
    /\ ipv4 = FALSE
    /\ ipv6 = FALSE
    /\ count = 0
    /\ verbose \in BOOLEAN
    /\ answer = LookupOk(<<"10.0.0.1">>)
    /\ pc = "loop_head"
    /\ resolve_err = ""
    /\ filtered_ips = <<"10.0.0.1">>
    /\ target = Some("10.0.0.1")
    /\ running = TRUE
    /\ \E k \in 0..LongRunLead :
          /\ seq = U32Below(U32Max, k)
          /\ stats = [NewStats EXCEPT !.transmitted = U32Below(U32Max, k),
                                      !.received = <<0, 0>>]
    /\ task = "none"
    /\ task_target = None
    /\ task_res = None
    /\ detached = 0
    /\ result = None
    /\ out = <<>>
    /\ err_out = <<>>
    /\ summary = None
    /\ sleeps = 0
    /\ spawned = 0

\* main.rs 336-362 with the flag true throughout: one probe is made and fails,
\* by an error of the connect call or by a timeout.  (The model follows the run
\* until seq is LongRunTail past the wrap.)
LongRun_Probe ==
    /\ pc = "loop_head"
    /\ running
    /\ seq[1] = 65535 \/ seq[2] < LongRunTail
    /\ \E r \in {c \in ConnectResults : ~c.ok} : result' = Some(r)
    /\ pc' = "handle"
    /\ UNCHANGED <<args, resolve_err, filtered_ips, target, running, stats, seq, task,
                   task_target, task_res, detached, out, err_out, summary, sleeps,
                   spawned>>

\* main.rs 364-405 for a failed probe: seq_num = seq; seq += 1; print the line;
\* stats.update(false, None) (transmitted += 1, stats.rs 29); back to the loop
\* head.  At the largest u32 the additions wrap to 0 in a build without
\* overflow checks and panic in a build with them.
LongRun_Handle ==
    /\ pc = "handle"
    /\ \/ /\ seq' = U32Inc(seq)
          /\ out' = Append(out, ProbeLine(Unwrap(result), seq, 0))
          /\ stats' = [stats EXCEPT !.transmitted = U32Inc(@)]
          /\ result' = None
          /\ pc' = "loop_head"
       \/ /\ seq = U32Max
          /\ pc' = "aborted"
          /\ UNCHANGED <<seq, out, stats, result>>
    /\ UNCHANGED <<args, resolve_err, filtered_ips, target, running, task,
                   task_target, task_res, detached, err_out, summary, sleeps, spawned>>

NextLongRun == LongRun_Probe \/ LongRun_Handle

SpecLongRun == InitLongRun /\ [][NextLongRun]_vars


\* ------------------------------------------------------------------ claims

\* The loop has left the while (Stopped): main is at or past line 408.
Stopped == pc \in {"summary", "done"} /\ resolve_err = ""

\* C1: after every sequence of update calls with arbitrary arguments,
\* received <= transmitted and the number of stored samples equals received.
C1_Claim ==
    /\ stats.received <= stats.transmitted
    /\ Len(stats.rtt_values) = stats.received

\* C2: a probe whose result the loop holds (the flag was true when the await
\* began, so a flag found false now was cleared while the probe was in flight)
\* is handled, printed and recorded; the loop does not go from there to Stopped.
C2_Claim ==
    [][(pc = "check_result" /\ pc' \notin {"check_result", "exited"})
          => pc' = "handle"]_vars

\* C3: in unbounded mode, with 3 outcomes recorded and no 4th probe started, once
\* the flag is false the loop gets to Stopped without the interval sleep having
\* to end: a loop that is in the sleep can leave it for Stopped directly.
C3_Claim ==
    (count = 0 /\ ~running /\ stats.transmitted = 3 /\ spawned = 3 /\ pc = "sleep")
        => ENABLED (Next /\ pc' = "summary")

\* The counters of a run with count = N > 0 whose flag is still true: one sleep
\* after each of the first N-1 probes, none after the N-th, and at Stopped N
\* probes started, printed and recorded.
C4_Counts ==
    (count > 0 /\ running /\ resolve_err = "") =>
        /\ sleeps = (IF pc = "check_wait" THEN seq - 1
                     ELSE IF seq < count THEN seq ELSE count - 1)
        /\ Stopped => /\ stats.transmitted = count
                      /\ spawned = count
                      /\ Len(out) = count
                      /\ sleeps = count - 1

\* C4: with count = N > 0 and the flag never cleared, the loop sleeps once after
\* each of the first N-1 probes and not after the N-th, at Stopped exactly N
\* probes have been started, printed and recorded, and main does return.
C4_Theorem == [](C4_Counts) /\ ((count > 0) ~> (pc = "done" \/ ~running))

C4_Witness ==
    /\ count = 2 /\ running /\ pc = "done"
    /\ stats.transmitted = 2 /\ sleeps = 1

\* C5: with count = 0 the loop is at Stopped only when the flag is false.
C5_Theorem == (count = 0 /\ Stopped) => ~running

C5_Witness ==
    /\ count = 0 /\ pc = "done" /\ ~running
    /\ stats.transmitted = 3 /\ stats.received = 1



\* C6: resolve_host falls back to the literal address when the lookup fails or
\* returns no address, and reports cannot-resolve-host exactly when both the
\* lookup (error or empty) and the literal parse fail.
C6_Claim ==
    pc # "start" =>
        LET literal == ParseIpAddr(host)
            lookup_failed == ~answer.ok \/ answer.ips = <<>>
        IN /\ (lookup_failed /\ IsSome(literal)) =>
                  LET kept == filter_ip_addresses(<<Unwrap(literal)>>, ipv4, ipv6)
                  IN /\ filtered_ips = kept
                     /\ resolve_err = (IF kept = <<>> THEN "NoAddressForFamily" ELSE "")
           /\ (resolve_err = "CannotResolveHost") <=> (lookup_failed /\ ~IsSome(literal))

\* C7: when resolve_host fails the error is printed once and nothing else happens
\* (no probe, no statistics, no summary); a literal IPv6 host with ipv4-only is
\* such a failure; when it succeeds the list is non-empty and its first element
\* is the target of the run and of every connect task.
C7_Theorem ==
    /\ resolve_err # "" =>
          /\ pc = "done"
          /\ err_out = <<resolve_err>>
          /\ spawned = 0 /\ task = "none" /\ task_target = None
          /\ stats = NewStats
          /\ out = <<>> /\ summary = None
    /\ (pc # "start" /\ ~answer.ok /\ host = "::1" /\ ipv4) =>
          resolve_err = "NoAddressForFamily"
    /\ (pc # "start" /\ resolve_err = "") =>
          /\ filtered_ips # <<>>
          /\ err_out = <<>>
          /\ target = Some(filtered_ips[1])
          /\ spawned > 0 => task_target = Some(filtered_ips[1])
    /\ pc = "start" => spawned = 0

C7_Witness ==
    /\ pc = "done" /\ host = "::1" /\ ipv4 /\ ~answer.ok
    /\ resolve_err = "NoAddressForFamily" /\ Len(err_out) = 1 /\ spawned = 0

\* C8: the filter returns the entries of one family, all of them, in their input
\* order: IPv4 when ipv4-only, IPv6 when ipv6-only, and in auto mode IPv4 when
\* the input holds an IPv4 address, IPv6 otherwise.
C8_Theorem ==
    (pc # "start" /\ LookupOrLiteral(host, answer).ok) =>
        LET input == LookupOrLiteral(host, answer).ips
            has4 == \E i \in 1..Len(input) : input[i] \in Addrs4
            family == IF ipv4 THEN Addrs4
                      ELSE IF ipv6 THEN Addrs6
                      ELSE IF has4 THEN Addrs4 ELSE Addrs6
            kept == {i \in 1..Len(input) : input[i] \in family}
        IN /\ Len(filtered_ips) = Cardinality(kept)
           /\ \A k \in 1..Len(filtered_ips) :
                 /\ filtered_ips[k] \in family
                 /\ \E i \in kept : /\ Cardinality({j \in kept : j <= i}) = k
                                    /\ filtered_ips[k] = input[i]

C8_Witness ==
    /\ pc # "start" /\ ~ipv4 /\ ~ipv6
    /\ answer = LookupOk(<<"10.0.0.2", "::1", "10.0.0.1">>)
    /\ filtered_ips = <<"10.0.0.2", "10.0.0.1">>

\* C9: handling a failed result records one failed outcome (transmitted + 1,
\* received and the samples unchanged), prints one failure line, starts no other
\* connect task and goes on to the same checkpoint as a success; every connect
\* task is the only one of its iteration; and the loop is only ever left because
\* the flag is false or the count is used up.
C9_Theorem ==
    [][/\ (pc = "handle" /\ ~Unwrap(result).ok /\ pc' \notin {"handle", "exited"}) =>
             /\ stats'.transmitted = stats.transmitted + 1
             /\ stats'.received = stats.received
             /\ stats'.rtt_values = stats.rtt_values
             /\ Len(out') = Len(out) + 1
             /\ out'[Len(out')].kind \in {"timeout", "unreachable"}
             /\ out'[Len(out')].seq = seq
             /\ spawned' = spawned
             /\ seq' = seq + 1
             /\ pc' = "check_wait"
       /\ spawned' # spawned => (spawned = seq /\ spawned' = seq + 1)
       /\ (pc # "summary" /\ pc' = "summary") =>
             (~running \/ CountReached(seq, count))]_vars

C9_Witness ==
    /\ Len(out) = 3
    /\ out[1].kind = "unreachable" /\ out[2].kind = "timeout" /\ out[3].kind = "reply"
    /\ stats.transmitted = 3 /\ stats.received = 1

\* C10: with count = N > 0, every probe reported as a timeout and the flag never
\* cleared, the summary shows N sent, 0 received, 100.0% loss, and only the
\* header and the counts line are printed.
C10_Theorem ==
    (pc = "done" /\ resolve_err = "" /\ count > 0 /\ running
        /\ \A i \in 1..Len(out) : out[i].kind = "timeout") =>
        /\ IsSome(summary)
        /\ Unwrap(summary).transmitted = count
        /\ Unwrap(summary).received = 0
        /\ Unwrap(summary).lost = count
        /\ Unwrap(summary).loss_tenths = 1000
        /\ Unwrap(summary).lines = <<"header", "counts">>

C10_Witness ==
    /\ pc = "done" /\ count = 2 /\ running /\ verbose
    /\ Len(out) = 2 /\ out[1].kind = "timeout" /\ out[2].kind = "timeout"
    /\ IsSome(summary)


\* The jitter the samples `values` (in arrival order) should leave behind:
\* none below two samples, the first difference at two, then 15/16 smoothing
\* (Duration arithmetic: whole nanoseconds, division truncates).
RECURSIVE C11_Jitter(_)
C11_Jitter(values) ==
    LET n == Len(values)
    IN IF n < 2 THEN None
       ELSE LET diff == AbsDiff(values[n], values[n - 1])
                prev == C11_Jitter(SubSeq(values, 1, n - 1))
            IN IF prev = None THEN Some(diff)
               ELSE Some((15 * Unwrap(prev) + diff) \div 16)

\* C11: jitter is None below two recorded samples, the absolute difference of
\* the two samples at the second one, and (15 * previous + |new - preceding|) / 16
\* at every later one; it depends on the recorded samples only, so failed
\* probes in between leave it alone.  100 ms, 120 ms gives 20 ms; a following
\* 110 ms gives 19.375 ms.
C11_Theorem ==
    pc = "stats" =>
        /\ stats.jitter = C11_Jitter(stats.rtt_values)
        /\ Len(stats.rtt_values) < 2 => stats.jitter = None
        /\ stats.rtt_values = <<100000000, 120000000>> => stats.jitter = Some(20000000)
        /\ stats.rtt_values = <<100000000, 120000000, 110000000>>
              => stats.jitter = Some(19375000)

\* Three samples with a failed probe among the four updates.
C11_Witness ==
    /\ pc = "stats"
    /\ stats.rtt_values = <<100000000, 120000000, 110000000>>
    /\ stats.transmitted = 4
    /\ stats.received = 3
    /\ stats.jitter = Some(19375000)


\* The k-th smallest of `values` (k from 1), by counting: fewer than k
\* elements lie below it and at least k do not exceed it.
C12_Kth(values, k) ==
    LET idx == 1..Len(values)
    IN CHOOSE x \in {values[i] : i \in idx} :
          /\ Cardinality({i \in idx : values[i] < x}) < k
          /\ Cardinality({i \in idx : values[i] <= x}) >= k

\* C12: median_time is None without samples; with an odd number of samples
\* it is the middle one of the samples in ascending order; with an even
\* number it is the mean of the two middle ones (a Duration: the half
\* nanosecond of an odd sum is dropped), whatever the arrival order.
\* 10, 20, 30 ms gives 20 ms and 10, 20, 30, 40 ms gives 25 ms in any order.
C12_Theorem ==
    pc = "stats" =>
        LET v == stats.rtt_values
            n == Len(v)
            m == median_time(stats)
            range == {v[i] : i \in 1..n}
        IN /\ n = 0 => m = None
           /\ n % 2 = 1 => m = Some(C12_Kth(v, (n + 1) \div 2))
           /\ (n > 0 /\ n % 2 = 0)
                 => m = Some((C12_Kth(v, n \div 2) + C12_Kth(v, n \div 2 + 1)) \div 2)
           /\ (n = 3 /\ range = {10000000, 20000000, 30000000}) => m = Some(20000000)
           /\ (n = 4 /\ range = {10000000, 20000000, 30000000, 40000000})
                 => m = Some(25000000)

\* Four samples that arrived out of order.
C12_Witness ==
    /\ pc = "stats"
    /\ stats.rtt_values = <<40000000, 10000000, 30000000, 20000000>>
    /\ median_time(stats) = Some(25000000)


\* Whether the printed summary `sm` has a line tagged `tag`.
C13_Has(sm, tag) == \E i \in 1..Len(sm.lines) : sm.lines[i] = tag

C14_InLoop ==
    pc \in {"loop_head", "check_start", "spawn", "check_spawned", "await",
            "check_result", "handle", "check_wait", "sleep"}

\* C14: the request that finds the flag true only clears it: the loop stays
\* where it is and the process goes on.  While the flag is false a further
\* request can always end the process at once, at every point of the loop
\* (probe in flight or waiting between probes), and the exit prints no
\* summary.  The process exits in no other way, and the flag never returns
\* to true.
C14_Theorem ==
    [][/\ (running /\ ~running')
            => (pc' = pc /\ pc' # "exited" /\ stats' = stats /\ out' = out
                /\ summary' = summary)
       /\ ~running => ~running'
       /\ (~running /\ HandlerLive) => ENABLED (CtrlC /\ pc' = "exited")
       /\ (pc' = "exited" /\ pc # "exited")
            => (~running /\ HandlerLive /\ summary' = summary /\ out' = out
                /\ (C14_InLoop => summary = None))]_vars

\* A second request ended a run that had recorded probes: no summary.
C14_Witness ==
    /\ pc = "exited" /\ ~running
    /\ stats.transmitted >= 1 /\ spawned > stats.transmitted
    /\ summary = None


\* C15: when the loop has exited and main has returned, a summary was
\* printed if and only if transmitted > 0; a run that started at least one
\* probe printed one, a run that started none printed none.
C15_Claim ==
    (pc = "done" /\ resolve_err = "") =>
        /\ IsSome(summary) <=> stats.transmitted > 0
        /\ spawned > 0 => IsSome(summary)
        /\ spawned = 0 => summary = None


\* C16: at most one probe is in flight: at every step that spawns a connect
\* task, no earlier connect task is still running, awaited or unawaited.
C16_Claim ==
    [][spawned' # spawned => (task # "running" /\ detached = 0)]_vars


\* C17: a probe's outcome is that of whichever comes first, the connect
\* result or a timer.  When the outer timer ends the await while the connect
\* task still runs, the outcome is the timeout error; otherwise it is what
\* the task returned (the timeout error when the timer inside tcp_connect
\* came first).  A timeout error is printed and recorded as a timeout
\* failure, a success is recorded only for a connect result that reached
\* the loop, and what an unawaited task reports later changes nothing.
C17_Theorem ==
    [][/\ (pc = "await" /\ pc' = "check_result") =>
             /\ task = "running" => result' = Some(Err(ErrConnectTimeout))
             /\ task = "finished" => result' = task_res
       /\ (pc = "handle" /\ pc' \notin {"handle", "exited"}) =>
             LET res == Unwrap(result)
                 line == out'[Len(out')]
             IN /\ Len(out') = Len(out) + 1
                /\ stats'.transmitted = stats.transmitted + 1
                /\ res.err = ErrConnectTimeout =>
                      (line.kind = "timeout" /\ stats'.received = stats.received
                       /\ stats'.rtt_values = stats.rtt_values)
                /\ (line.kind = "reply" \/ stats'.received > stats.received) =>
                      (res.ok /\ res \in ConnectResults)
       /\ (detached' < detached /\ pc' = pc) =>
             (out' = out /\ stats' = stats /\ result' = result)]_vars

\* A timeout was recorded while the connect task of that probe still runs.
C17_Witness ==
    /\ Len(out) = 1 /\ out[1].kind = "timeout"
    /\ stats.transmitted = 1 /\ stats.received = 0
    /\ detached = 1 /\ pc = "check_wait"


\* C18 as stated: no connect task is spawned while the flag is false, and no
\* inter-probe wait is begun with the flag false at the checkpoint before it.
C18_Claim ==
    [][/\ spawned' # spawned => running
       /\ (pc' = "sleep" /\ pc # "sleep") => (pc = "check_wait" /\ running)]_vars

\* C18, amended: a connect task is spawned only after the checkpoint just
\* before the spawn has read the flag as true, and a wait is begun only when
\* the checkpoint before the wait reads it as true.  With the flag false a
\* spawn can happen only from the point between that checkpoint and the
\* spawn; the loop then leaves at the next checkpoint without awaiting the
\* task, and starts no further probe.
C18_Theorem ==
    [][/\ (pc' = "spawn" /\ pc # "spawn") => (pc = "check_start" /\ running)
       /\ spawned' # spawned => (pc = "spawn" /\ pc' = "check_spawned")
       /\ (~running /\ pc = "check_spawned" /\ pc' # pc) => pc' \in {"summary", "exited"}
       /\ (pc' = "sleep" /\ pc # "sleep") => (pc = "check_wait" /\ running)]_vars

\* The flag was cleared between the checkpoint and the spawn of the second
\* probe, and the spawn is the loop's next step.
C18_Witness ==
    /\ pc = "spawn" /\ ~running /\ spawned = 1 /\ stats.transmitted = 1
    /\ ENABLED (Spawn /\ spawned' = 2)


\* The sum of a sequence of durations.
RECURSIVE C20_Sum(_)
C20_Sum(values) == IF values = <<>> THEN 0 ELSE Head(values) + C20_Sum(Tail(values))

\* C20: after any sequence of update calls, min_time is Some exactly when a
\* sample was recorded; whenever received > 0, min_time and max_time bound
\* every recorded sample and each of them is one of the recorded samples;
\* total_time is the sum of the samples and the printed average is that sum
\* divided by received.
C20_Claim ==
    LET v == stats.rtt_values
        idx == 1..Len(v)
    IN /\ IsSome(stats.min_time) <=> Len(v) > 0
       /\ stats.received > 0 =>
             /\ IsSome(stats.min_time)
             /\ \A i \in idx : Unwrap(stats.min_time) <= v[i] /\ v[i] <= stats.max_time
             /\ \E i \in idx : v[i] = Unwrap(stats.min_time)
             /\ \E i \in idx : v[i] = stats.max_time
             /\ print_summary(stats, verbose).avg_time
                   = Some(C20_Sum(v) \div stats.received)
       /\ stats.total_time = C20_Sum(v)


\* b is the u32 one above a, as numbers.
C19_Succ(a, b) ==
    \/ b[1] = a[1] /\ b[2] = a[2] + 1
    \/ a[2] = 65535 /\ b[1] = a[1] + 1 /\ b[2] = 0

\* C19: in a run of any length the probe reported at a step carries the
\* number of outcomes recorded before it, the next sequence number is one
\* above it, and seq = transmitted at the loop head before and after.
C19_Claim ==
    [][(pc = "handle" /\ pc' = "loop_head") =>
          /\ out'[Len(out')].seq = seq
          /\ seq = stats.transmitted
          /\ seq' = stats'.transmitted
          /\ C19_Succ(seq, seq')
          /\ C19_Succ(stats.transmitted, stats'.transmitted)]_vars


====
